---- MODULE Spec2Model ----
(***************************************************************************)
(* LogWatcher (html/n8n-logger/apache_log_ingester.py): the trace-grouping *)
(* tailer tail_log, its consumer run / send_to_n8n, and the enrichment     *)
(* get_project_info with its caches.                                       *)
(*                                                                         *)
(* Time is counted in ticks of 100 ms (Second ticks make one second), so   *)
(* that the three delays of tail_log (0.2 s, 0.5 s, 2 s) are whole numbers.*)
(* The program never reads the clock but to compare the time since a       *)
(* stored instant with a constant (time.time() - fcntl_start_time >= 2; a  *)
(* cache entry's age with its ttl), so the state keeps, for every stored   *)
(* instant, the time elapsed since it, and stops counting at the constant  *)
(* it is compared with.                                                    *)
(*                                                                         *)
(* The specifications share the state.  Spec follows tail_log statement by *)
(* statement and takes get_project_info as one step; there statements take *)
(* no time, and time passes in the sleeps and in the calls that leave the  *)
(* process.  SpecEnrich follows get_project_info statement by statement,   *)
(* with its caches, and takes tail_log as one step; there time may also    *)
(* pass between a cache's membership test and the read after it (Tick).    *)
(*                                                                         *)
(* Three more specifications take one function each on its own, from any   *)
(* of its inputs: SpecVhost find_vhost_for_path, SpecBlame get_git_blame   *)
(* from the output of git blame on, and SpecShared two calls of            *)
(* get_project_info whose cache steps are interleaved.                     *)
(*                                                                         *)
(* The program is single-threaded: tail_log is a generator that run()      *)
(* resumes, so one program counter pc covers both.  The process that       *)
(* appends to the log file is the environment (WriteLine).                 *)
(***************************************************************************)
EXTENDS Integers, Sequences, FiniteSets, TLC

\* ------------------------------------------------------------------ bounds
\* The log file holds at most MaxLines lines.
MaxLines == 3
\* SpecEnrich: tail_log yields at most MaxCalls traces,
MaxCalls == 2
\* time passes between a membership test and the read after it at most
\* MaxTicks times,
MaxTicks == 1
\* and at most MaxOthers bursts of traces about other directories come in.
MaxOthers == 1
\* SpecBlame: a diff has one hunk or two, each of at most MaxBody lines, the
\* first of them starting at line MaxStart at most.
MaxBody == 2
MaxStart == 2

\* ------------------------------------------------------- program constants
\* time.time() counts seconds; the model's clock counts ticks of 100 ms.
Second == 10

\* line 137: fcntl_wait_time = 2
fcntl_wait_time == 2 * Second
\* line 126: time.sleep(0.5)
IdleSleep == Second \div 2
\* line 146: time.sleep(0.2)
PollSleep == Second \div 5
\* line 101: timeout=2
PostTimeout == 2 * Second
\* lines 52-54: TTLCache(maxsize=..., ttl=86400)
ttl == 86400 * Second
RootMaxsize == 1000
RemoteMaxsize == 1000
BlameMaxsize == 5000

VARIABLES
    config,           \* self.config, as far as the program reads it
    log,              \* the lines of the log file, in file order
    pos,              \* f's read position: the number of lines consumed
    pc,               \* where the program is
    line,             \* tail_log's local `line`
    current_trace,    \* tail_log's pending accumulator
    fcntl_elapsed,    \* time.time() - fcntl_start_time, up to fcntl_wait_time
    error_trace,      \* the trace tail_log handed to run() at its last yield
    error_detail,     \* send_to_n8n's local: what get_project_info returned
    \* history, kept for the properties only
    sinceArrived,     \* time since the last line was appended to the log
    arrivedQuiet,     \* arrivedQuiet[i]: line i arrived >= 2 s after line i-1
    sinceRead,        \* time since readline last returned a line
    readQuiet,        \* readQuiet[i]: line i was read >= 2 s after line i-1
    traces,           \* every trace yielded so far, with the place of the yield
    handled,          \* what run() has done with the trace in hand
    posts,            \* the calls of session.post for the trace in hand
    failed,           \* some call of session.post has failed
    \* the caches (lines 51-54)
    vhost_cache,      \* a dict: a function of the file paths it holds
    git_root_cache,   \* the TTL caches: their entries, least recently used
    git_remote_cache, \*   first, each with the time since it was stored
    git_blame_cache,
    \* get_project_info's locals
    file_path,
    line_number,
    dir_path,
    vhost,
    repo_root,
    git_remote,
    blame,
    \* history, kept for the properties only
    last,             \* per resolver and key: the answer last stored, its age
    rootUsed,         \* per directory: the other entries of git_root_cache
                      \*   stored or read since its own was stored or read
    rootTest,         \* what the membership test of line 219 met
    resolved,         \* per resolver: how this call got its answer
    calls,            \* SpecEnrich: traces yielded
    ticks,            \* SpecEnrich: Tick steps taken
    others,           \* SpecEnrich: bursts of other traces taken
    \* the inputs of the functions that are checked on their own
    sites_enabled,    \* SpecVhost: the sites the configs of vhost_dir reference
    blame_output,     \* SpecBlame: what git blame --porcelain printed
    diff_output,      \* SpecBlame: the lines git diff printed
    \* get_git_blame's locals
    diff_pos,         \* the index in diff_output of the loop's next diff_line
    current_line,
    line_diff,        \* the index in diff_output of line_diff, 0 for None
    \* SpecShared: two calls of get_project_info on the same LogWatcher
    callers,          \* per call: its place, its locals, what it raised
    returned          \* per cache and key: the values its query has returned

tailVars == <<log, pos, line, current_trace>>
timers == <<fcntl_elapsed, sinceArrived, sinceRead>>
histVars == <<arrivedQuiet, readQuiet, traces, handled, posts, failed>>
ttlCaches == <<git_root_cache, git_remote_cache, git_blame_cache>>
locals == <<file_path, line_number, dir_path, vhost, repo_root, git_remote,
            blame>>
budgets == <<calls, ticks, others>>
\* what the passing of time changes of the enrichment's state, and the rest
aged == <<ttlCaches, last>>
enrichRest == <<vhost_cache, locals, rootUsed, rootTest, resolved, budgets>>
enrichVars == <<aged, enrichRest>>
blameLocals == <<diff_pos, current_line, line_diff>>
sharedVars == <<callers, returned>>
inputs == <<sites_enabled, blame_output, diff_output, blameLocals, sharedVars>>
vars == <<config, pc, error_trace, error_detail, tailVars, timers, histVars,
          enrichVars, inputs>>

\* ------------------------------------------------------------------- time
\* A timer d ticks later; it stops counting at cap.
Later(t, d, cap) == IF t + d >= cap THEN cap ELSE t + d

\* Ages are compared with ttl: they are counted up to the first value
\* beyond it.
AgeCap == ttl + 1

\* The entries of a TTL cache d ticks later.  An entry is
\* [other, key, value, n, age]: the entry of key, or (other) n entries of
\* keys the model does not tell apart.
Aged(cache, d) ==
    [i \in 1..Len(cache) |-> [cache[i] EXCEPT !.age = Later(@, d, AgeCap)]]

\* The answers stored so far, d ticks later.
AgedAnswers(answers, d) ==
    [k \in DOMAIN answers |->
        IF answers[k].stored
        THEN [answers[k] EXCEPT !.age = Later(@, d, AgeCap)]
        ELSE answers[k]]

\* d ticks pass.
Elapse(d) ==
    /\ fcntl_elapsed' = Later(fcntl_elapsed, d, fcntl_wait_time)
    /\ sinceArrived' = Later(sinceArrived, d, fcntl_wait_time)
    /\ sinceRead' = Later(sinceRead, d, fcntl_wait_time)
    /\ git_root_cache' = Aged(git_root_cache, d)
    /\ git_remote_cache' = Aged(git_remote_cache, d)
    /\ git_blame_cache' = Aged(git_blame_cache, d)
    /\ last' = [r \in DOMAIN last |->
                  IF r = "vhost" THEN last[r] ELSE AgedAnswers(last[r], d)]

\* ---------------------------------------------------------------- the log
\* A log line, stripped.  What tail_log looks at is whether
\* error_start_pattern matches it (lines 49, 130); n numbers the lines of the
\* file, so that two lines can be told apart.
Lines == [n : 1..MaxLines, start : BOOLEAN]

\* line 130: self.error_start_pattern.search(line)
ErrorStart(l) == l.start

\* The process that writes the log appends one line (the environment).
WriteLine ==
    /\ UNCHANGED inputs
    /\ Len(log) < MaxLines
    /\ \E l \in Lines :
          /\ l.n = Len(log) + 1
          /\ log' = Append(log, l)
    /\ sinceArrived' = 0
    /\ arrivedQuiet' = Append(arrivedQuiet, sinceArrived >= fcntl_wait_time)
    /\ UNCHANGED <<config, pc, error_trace, error_detail, pos, line,
                   current_trace, fcntl_elapsed, sinceRead, readQuiet, traces,
                   handled, posts, failed>>
    /\ UNCHANGED enrichVars

\* ------------------------------------------------------------- the config
\* load_config (lines 58-72) reads a JSON file: log_file names an existing
\* file or not (line 116), enabled (line 161), n8n_url is set or not (line 94).
\* A failed load leaves self.config as it was: {} at construction.
Configs == [log_file : BOOLEAN, enabled : BOOLEAN, n8n_url : BOOLEAN]

\* ---------------------------------------------------------------- tail_log
\* (mutant) the log file is taken to be there whatever the config says.
NoLogFile_Never == FALSE

\* line 116: not log_file or not os.path.isfile(log_file)
NoLogFile == ~config.log_file

\* lines 115-122: the log_file test, open, seek to the end.
TailStart ==
    /\ UNCHANGED inputs
    /\ pc = "start"
    /\ IF NoLogFile
       THEN /\ pc' = "returned"
            /\ UNCHANGED <<pos, current_trace, readQuiet>>
       ELSE /\ pos' = Len(log)
            /\ readQuiet' = [i \in 1..Len(log) |-> FALSE]
            /\ current_trace' = <<>>
            /\ pc' = "scan"
    /\ UNCHANGED <<config, error_trace, error_detail, log, line, timers,
                   arrivedQuiet, traces, handled, posts, failed>>
    /\ UNCHANGED enrichVars

\* (mutant) the line is put in front of the trace.
AppendLine_InFront(trace, l) == <<l>> \o trace

\* lines 135, 149: current_trace.append(line)
AppendLine(trace, l) == Append(trace, l)

\* line 142: time.time() - fcntl_start_time >= fcntl_wait_time
QuietElapsed(elapsed) == elapsed >= fcntl_wait_time

\* (mutant) the timer is left running.
RestartTimer_Never(elapsed) == elapsed

\* lines 138, 150: fcntl_start_time = time.time()
RestartTimer(elapsed) == 0

\* lines 132, 143: yield "\n".join(current_trace); control passes to run().
Yield(place) ==
    /\ error_trace' = current_trace
    /\ traces' = Append(traces, [lines |-> current_trace, place |-> place])
    /\ pc' = "run"

\* readline returned line pos + 1 (history).
NoteRead ==
    /\ sinceRead' = 0
    /\ readQuiet' = Append(readQuiet, sinceRead >= fcntl_wait_time)

\* lines 124-138: the scanning loop reads a line.
ScanRead ==
    /\ UNCHANGED inputs
    /\ pc = "scan"
    /\ IF pos = Len(log)
       THEN /\ pc' = "scan_sleep"
            /\ UNCHANGED <<pos, line, current_trace, fcntl_elapsed,
                           error_trace, sinceRead, readQuiet, traces>>
       ELSE /\ pos' = pos + 1
            /\ line' = log[pos + 1]
            /\ NoteRead
            /\ IF ErrorStart(log[pos + 1]) /\ current_trace # <<>>
               THEN /\ Yield("start")
                    /\ UNCHANGED <<current_trace, fcntl_elapsed>>
               ELSE /\ current_trace' = AppendLine(current_trace, log[pos + 1])
                    /\ fcntl_elapsed' = RestartTimer(fcntl_elapsed)
                    /\ pc' = "collect"
                    /\ UNCHANGED <<error_trace, traces>>
    /\ UNCHANGED <<config, error_detail, log, sinceArrived, arrivedQuiet,
                   handled, posts, failed>>
    /\ UNCHANGED enrichVars

\* line 126: time.sleep(0.5)
ScanSleep ==
    /\ UNCHANGED inputs
    /\ pc = "scan_sleep"
    /\ Elapse(IdleSleep)
    /\ pc' = "scan"
    /\ UNCHANGED <<config, error_trace, error_detail, tailVars, histVars>>
    /\ UNCHANGED enrichRest

\* (mutant) the quiet-period loop ends the pending trace at an error-start
\* line, as the scanning loop does.
CollectRead_SplitOnStart ==
    /\ UNCHANGED inputs
    /\ pc = "collect"
    /\ IF pos = Len(log)
       THEN IF QuietElapsed(fcntl_elapsed)
            THEN /\ Yield("quiet")
                 /\ UNCHANGED <<pos, line, current_trace, fcntl_elapsed,
                                sinceRead, readQuiet>>
            ELSE /\ pc' = "collect_sleep"
                 /\ UNCHANGED <<pos, line, current_trace, fcntl_elapsed,
                                error_trace, sinceRead, readQuiet, traces>>
       ELSE /\ pos' = pos + 1
            /\ NoteRead
            /\ IF ErrorStart(log[pos + 1])
               THEN /\ line' = log[pos + 1]
                    /\ Yield("start")
                    /\ UNCHANGED <<current_trace, fcntl_elapsed>>
               ELSE /\ current_trace' = AppendLine(current_trace, log[pos + 1])
                    /\ fcntl_elapsed' = RestartTimer(fcntl_elapsed)
                    /\ pc' = "collect"
                    /\ UNCHANGED <<line, error_trace, traces>>
    /\ UNCHANGED <<config, error_detail, log, sinceArrived, arrivedQuiet,
                   handled, posts, failed>>
    /\ UNCHANGED enrichVars

\* lines 140-150: the quiet-period loop reads a line.
CollectRead ==
    /\ UNCHANGED inputs
    /\ pc = "collect"
    /\ IF pos = Len(log)
       THEN IF QuietElapsed(fcntl_elapsed)
            THEN /\ Yield("quiet")
                 /\ UNCHANGED <<pos, current_trace, fcntl_elapsed, sinceRead,
                                readQuiet>>
            ELSE /\ pc' = "collect_sleep"
                 /\ UNCHANGED <<pos, current_trace, fcntl_elapsed, error_trace,
                                sinceRead, readQuiet, traces>>
       ELSE /\ pos' = pos + 1
            /\ NoteRead
            /\ current_trace' = AppendLine(current_trace, log[pos + 1])
            /\ fcntl_elapsed' = RestartTimer(fcntl_elapsed)
            /\ pc' = "collect"
            /\ UNCHANGED <<error_trace, traces>>
    /\ UNCHANGED <<config, error_detail, log, line, sinceArrived, arrivedQuiet,
                   handled, posts, failed>>
    /\ UNCHANGED enrichVars

\* line 146: time.sleep(0.2)
CollectSleep ==
    /\ UNCHANGED inputs
    /\ pc = "collect_sleep"
    /\ Elapse(PollSleep)
    /\ pc' = "collect"
    /\ UNCHANGED <<config, error_trace, error_detail, tailVars, histVars>>
    /\ UNCHANGED enrichRest

\* (mutant) the generator goes on without emptying the accumulator.
Resume_KeepTrace ==
    /\ UNCHANGED inputs
    /\ pc = "resume"
    /\ pc' = "scan"
    /\ error_detail' = "unset"
    /\ handled' = "none"
    /\ posts' = <<>>
    /\ UNCHANGED <<config, error_trace, tailVars, timers, arrivedQuiet,
                   readQuiet, traces, failed>>
    /\ UNCHANGED enrichVars

\* run()'s for loop asks tail_log for the next trace: the generator goes on
\* after the yield that handed out the last one (lines 133-138, or 144-145).
Resume ==
    /\ UNCHANGED inputs
    /\ pc = "resume"
    /\ IF traces[Len(traces)].place = "start"
       THEN /\ current_trace' = AppendLine(<<>>, line)
            /\ fcntl_elapsed' = RestartTimer(fcntl_elapsed)
            /\ pc' = "collect"
       ELSE /\ current_trace' = <<>>
            /\ pc' = "scan"
            /\ UNCHANGED fcntl_elapsed
    /\ error_detail' = "unset"
    /\ handled' = "none"
    /\ posts' = <<>>
    /\ UNCHANGED <<config, error_trace, log, pos, line, sinceArrived, sinceRead,
                   arrivedQuiet, readQuiet, traces, failed>>
    /\ UNCHANGED enrichVars

\* ------------------------------------------------------ run, send_to_n8n
\* lines 158-163: the body of run()'s loop up to the call of send_to_n8n.
\* config_needs_reload (lines 74-81) compares the time since the last load
\* with reload_interval; when the reload is due and the file loads,
\* self.config becomes whatever the file holds now.  The time of the last
\* load is not kept: a reload may be due at any trace.  log_file is not read
\* again once tail_log has started, and keeps its value here.
RunBody ==
    /\ UNCHANGED inputs
    /\ pc = "run"
    /\ \E c \in Configs :
          /\ c.log_file = config.log_file
          /\ config' = c
          /\ IF ~c.enabled
             THEN /\ handled' = "disabled"
                  /\ pc' = "resume"
             ELSE /\ pc' = "send"
                  /\ UNCHANGED handled
    /\ UNCHANGED <<error_trace, error_detail, tailVars, timers, arrivedQuiet,
                   readQuiet, traces, posts, failed>>
    /\ UNCHANGED enrichVars

\* lines 93-96: send_to_n8n up to the try.
SendToN8n ==
    /\ UNCHANGED inputs
    /\ pc = "send"
    /\ IF ~config.n8n_url
       THEN /\ handled' = "no_url"
            /\ pc' = "resume"
       ELSE /\ pc' = "get_project_info"
            /\ UNCHANGED handled
    /\ UNCHANGED <<config, error_trace, error_detail, tailVars, timers,
                   arrivedQuiet, readQuiet, traces, posts, failed>>
    /\ UNCHANGED enrichVars

\* What get_project_info does with a trace, as send_to_n8n sees it: it
\* returns None or the record, or it raises.
GetProjectInfoResults == {"None", "detail", "OSError", "KeyError"}

\* lines 99, 102-103: error_detail = self.get_project_info(error_trace), in
\* the try of send_to_n8n.  Here get_project_info is summarised by its result
\* (whether the trace holds a reference is settled when it is parsed) and by
\* the time its queries take; its steps and caches are SpecEnrich's part.
GetProjectInfoReturns ==
    /\ UNCHANGED inputs
    /\ pc = "get_project_info"
    /\ \E d \in {0, Second}, r \in GetProjectInfoResults :
          /\ Elapse(d)
          /\ IF r \in {"OSError", "KeyError"}
             THEN /\ handled' = r
                  /\ pc' = "resume"
                  /\ UNCHANGED error_detail
             ELSE /\ error_detail' = r
                  /\ pc' = "post"
                  /\ UNCHANGED handled
    /\ UNCHANGED <<config, error_trace, tailVars, arrivedQuiet, readQuiet,
                   traces, posts, failed>>
    /\ UNCHANGED enrichRest

\* line 101: self.session.post(n8n_url, json=..., timeout=2) answers within
\* the timeout, or raises: at once (no connection) or at the timeout.
PostResults == {[ok |-> TRUE, took |-> 0], [ok |-> FALSE, took |-> 0],
                [ok |-> FALSE, took |-> PostTimeout]}

\* (mutant) a failed post is not caught: the exception ends run().
AfterPost_Uncaught(r) == IF r.ok THEN "resume" ELSE "crashed"

\* lines 102-103: except Exception, logged; send_to_n8n returns.
AfterPost(r) == "resume"

\* lines 101-103: the post and its exception handler.
Post ==
    /\ UNCHANGED inputs
    /\ pc = "post"
    /\ \E r \in PostResults :
          /\ Elapse(r.took)
          /\ posts' = Append(posts, [error_line |-> error_trace,
                                     error_detail |-> error_detail,
                                     ok |-> r.ok])
          /\ handled' = IF r.ok THEN "posted" ELSE "post_failed"
          /\ failed' = (failed \/ ~r.ok)
          /\ pc' = AfterPost(r)
    /\ UNCHANGED <<config, error_trace, error_detail, tailVars, arrivedQuiet,
                   readQuiet, traces>>
    /\ UNCHANGED enrichRest

\* ------------------------------------------------------------- TTL caches
\* The TTLCache operations the program uses (lines 219-246).  An entry is
\* held until it is evicted; it is served while its age is below ttl.
\* (mutant) an entry is served whatever its age.
Fresh_Forever(e) == TRUE

Fresh(e) == e.age < ttl

RECURSIVE Size(_)
Size(cache) == IF cache = <<>> THEN 0 ELSE Head(cache).n + Size(Tail(cache))

Holds(cache, key) ==
    \E i \in 1..Len(cache) : ~cache[i].other /\ cache[i].key = key

IndexOf(cache, key) ==
    CHOOSE i \in 1..Len(cache) : ~cache[i].other /\ cache[i].key = key

\* lines 219, 232, 245: key in cache
Contains(cache, key) ==
    \E i \in 1..Len(cache) :
        ~cache[i].other /\ cache[i].key = key /\ Fresh(cache[i])

Without(cache, i) == SubSeq(cache, 1, i - 1) \o SubSeq(cache, i + 1, Len(cache))

\* lines 220, 233, 246: cache[key] makes the entry the most recently used one
\* (and then raises KeyError if the entry is not served any more).
Touched(cache, key) ==
    IF Holds(cache, key)
    THEN Without(cache, IndexOf(cache, key)) \o <<cache[IndexOf(cache, key)]>>
    ELSE cache

ValueOf(cache, key) == cache[IndexOf(cache, key)].value

\* A store first drops the entries that are not served any more,
Expire(cache) == SelectSeq(cache, Fresh)

\* then, for a new key, evicts least recently used entries until there is
\* room: until the cache holds at most size entries.
RECURSIVE PopTo(_, _)
PopTo(cache, size) ==
    IF Size(cache) <= size
    THEN cache
    ELSE IF Head(cache).n > Size(cache) - size
         THEN <<[Head(cache) EXCEPT !.n = @ - (Size(cache) - size)]>>
              \o Tail(cache)
         ELSE PopTo(Tail(cache), size)

Entry(key, value) ==
    [other |-> FALSE, key |-> key, value |-> value, n |-> 1, age |-> 0]

\* lines 230, 238, 243: cache[key] = value
SetItem(cache, key, value, maxsize) ==
    LET live == Expire(cache)
        room == IF Holds(live, key)
                THEN Without(live, IndexOf(live, key))
                ELSE PopTo(live, maxsize - 1)
    IN  room \o <<Entry(key, value)>>

\* n stores of n new keys that the model does not tell apart (like is a key
\* of the cache's kind).
AddOthers(cache, like, n, maxsize) ==
    PopTo(Expire(cache), maxsize - n)
        \o <<[other |-> TRUE, key |-> like, value |-> "None", n |-> n,
              age |-> 0]>>

\* ------------------------------------------------------ paths, references
\* The file paths the traces refer to, and os.path.dirname and
\* os.path.abspath on the paths that come up.
FilePaths == {"/var/www/a.php", "/srv/b.php"}

\* The file paths find_vhost_for_path is checked on in SpecVhost: those, a
\* file of the filesystem root, and a relative path.
HostPaths == FilePaths \union {"/a.php", "b.php"}

dirname ==
    [p \in {"/var/www/a.php", "/var/www", "/var", "/srv/b.php", "/srv", "/",
            "/a.php", "b.php", ""}
       |-> CASE p = "/var/www/a.php" -> "/var/www"
             [] p = "/var/www" -> "/var"
             [] p = "/srv/b.php" -> "/srv"
             [] p \in {"b.php", ""} -> ""
             [] OTHER -> "/"]

abspath == [p \in {"/var/www", "/srv"} |-> p]

Dirs == {abspath[dirname[f]] : f \in FilePaths}

\* What a line of a trace holds of 'in <file> on line <N>' (line 208).
NoRef == [file |-> "", line |-> 0]
Refs == {[file |-> "/var/www/a.php", line |-> 7],
         [file |-> "/srv/b.php", line |-> 7]}

\* line 240: blame_key = f"{file_path}:{line_number}"
BlameKey(file, n) == <<file, n>>
BlameKeys == {BlameKey(r.file, r.line) : r \in Refs}

\* The traces tail_log yields in SpecEnrich, a line being what it holds of
\* a reference: no reference at all, one in the first line, one in the
\* second line only.
TracesE ==
    {<<[ref |-> NoRef]>>,
     <<[ref |-> [file |-> "/var/www/a.php", line |-> 7]]>>,
     <<[ref |-> NoRef], [ref |-> [file |-> "/srv/b.php", line |-> 7]]>>}

\* line 208: re.search finds the first reference of the trace, if any.
HasMatch(trace) == \E i \in 1..Len(trace) : trace[i].ref # NoRef

Match(trace) ==
    trace[CHOOSE i \in 1..Len(trace) :
              /\ trace[i].ref # NoRef
              /\ \A j \in 1..(i - 1) : trace[j].ref = NoRef].ref

\* ------------------------------------------------- history of the answers
Resolvers == {"vhost", "root", "remote", "blame"}

\* The absent answer of a resolver.
NoAnswer(r) == IF r = "vhost" THEN {} ELSE "None"

\* Whether the resolver has answered for the key before with no TTL expiry
\* since (vhost_cache has no TTL).
Known(r, key) ==
    /\ last[r][key].stored
    /\ r = "vhost" \/ last[r][key].age < ttl

NotResolved(r) ==
    [done |-> FALSE, known |-> FALSE, was |-> NoAnswer(r), queried |-> FALSE,
     value |-> NoAnswer(r)]

\* The resolver answers value for key, having run its query or not.
Answer(r, key, queried, value) ==
    [resolved EXCEPT ![r] = [done |-> TRUE, known |-> Known(r, key),
                             was |-> last[r][key].value, queried |-> queried,
                             value |-> value]]

Stored(r, key, value) ==
    [last EXCEPT ![r][key] = [stored |-> TRUE, value |-> value, age |-> 0]]

\* key's entry of git_root_cache is stored or read.
UseRoot(key) ==
    [d \in Dirs |-> IF d = key THEN 0
                    ELSE Later(rootUsed[d], 1, RootMaxsize)]

NoRootTest == [tested |-> FALSE, stored |-> FALSE, age |-> 0, used |-> 0,
               hit |-> FALSE]

\* --------------------------------------------------- find_vhost_for_path
\* The directories the host configs of vhost_dir may reference, and the
\* config file that references each.
Sites == {"/var/www", "/srv"}

\* SpecVhost: those, a directory above one of them, and one beside it.
HostSites == Sites \union {"/var", "/var/www2"}

conf ==
    [s \in HostSites |-> CASE s = "/var/www" -> "www.conf"
                           [] s = "/srv" -> "srv.conf"
                           [] s = "/var" -> "var.conf"
                           [] s = "/var/www2" -> "www2.conf"]

\* search_path occurs in the text of a config that references site: grep
\* finds a pattern anywhere in a line, and the empty pattern in every line.
OccursIn(search_path, site) ==
    \/ search_path = site
    \/ search_path = "/var" /\ site \in {"/var/www", "/var/www2"}
    \/ search_path = "/var/www" /\ site = "/var/www2"
    \/ search_path \in {"/", ""}

\* lines 185-186: grep -l '{search_path}' {vhost_dir}/* || true, with the
\* configs of the sites enabled: the files that hold search_path.
Grep(search_path, enabled) ==
    {conf[s] : s \in {e \in enabled : OccursIn(search_path, e)}}

\* lines 184-193: the walk upward from search_path.
RECURSIVE Walk(_, _)
Walk(search_path, enabled) ==
    LET result == Grep(search_path, enabled)
        parent_path == dirname[search_path]
    IN  IF result # {}
        THEN result
        ELSE IF parent_path = search_path \/ parent_path = "/"
             THEN {}
             ELSE Walk(parent_path, enabled)

\* ------------------------------------------------------- get_project_info
\* (mutant) a trace without a reference makes get_project_info raise.
Parse_RaisesOnNoMatch ==
    /\ UNCHANGED inputs
    /\ pc = "get_project_info"
    /\ IF ~HasMatch(error_trace)
       THEN /\ handled' = "AttributeError"
            /\ pc' = "resume"
            /\ UNCHANGED <<file_path, line_number, dir_path>>
       ELSE /\ file_path' = Match(error_trace).file
            /\ line_number' = Match(error_trace).line
            /\ dir_path' = abspath[dirname[Match(error_trace).file]]
            /\ pc' = "find_vhost"
            /\ UNCHANGED handled
    /\ UNCHANGED <<config, error_trace, error_detail, tailVars, timers,
                   arrivedQuiet, readQuiet, traces, posts, failed, aged,
                   vhost_cache, vhost, repo_root, git_remote, blame, rootUsed,
                   rootTest, resolved, budgets>>

\* lines 208-215: the reference is parsed out of the trace, or None returned.
Parse ==
    /\ UNCHANGED inputs
    /\ pc = "get_project_info"
    /\ IF ~HasMatch(error_trace)
       THEN /\ error_detail' = "None"
            /\ pc' = "post"
            /\ UNCHANGED <<file_path, line_number, dir_path>>
       ELSE /\ file_path' = Match(error_trace).file
            /\ line_number' = Match(error_trace).line
            /\ dir_path' = abspath[dirname[Match(error_trace).file]]
            /\ pc' = "find_vhost"
            /\ UNCHANGED error_detail
    /\ UNCHANGED <<config, error_trace, tailVars, timers, histVars, aged,
                   vhost_cache, vhost, repo_root, git_remote, blame, rootUsed,
                   rootTest, resolved, budgets>>

\* (mutant) an absent answer is not taken for a cached one.
InVhostCache_FoundOnly(path) ==
    vhost_cache[path].held /\ vhost_cache[path].value # {}

\* line 178: file_path in self.vhost_cache
InVhostCache(path) == vhost_cache[path].held

\* lines 167-196: find_vhost_for_path(file_path) as one step, with the
\* configs of sites_enabled in vhost_dir.
FindVhostForPath ==
    /\ pc = "find_vhost_for_path"
    /\ IF InVhostCache(file_path)
       THEN /\ vhost' = vhost_cache[file_path].value
            /\ UNCHANGED vhost_cache
       ELSE /\ vhost' = Walk(dirname[file_path], sites_enabled)
            /\ vhost_cache' = [vhost_cache EXCEPT ![file_path] =
                                  [held |-> TRUE, value |-> vhost']]
    /\ pc' = "found_vhost"
    /\ UNCHANGED <<config, error_trace, error_detail, tailVars, timers,
                   histVars, aged, file_path, line_number, dir_path,
                   repo_root, git_remote, blame, rootUsed, rootTest, resolved,
                   budgets, inputs>>

\* lines 217, 178-196: vhost = self.find_vhost_for_path(file_path)
FindVhost ==
    /\ UNCHANGED inputs
    /\ pc = "find_vhost"
    /\ IF InVhostCache(file_path)
       THEN /\ vhost' = vhost_cache[file_path].value
            /\ resolved' = Answer("vhost", file_path, FALSE,
                                  vhost_cache[file_path].value)
            /\ UNCHANGED <<vhost_cache, last>>
       ELSE \E enabled \in SUBSET Sites :
               LET found_vhost == Walk(dirname[file_path], enabled) IN
               /\ vhost_cache' = [vhost_cache EXCEPT ![file_path] =
                                     [held |-> TRUE, value |-> found_vhost]]
               /\ vhost' = found_vhost
               /\ resolved' = Answer("vhost", file_path, TRUE, found_vhost)
               /\ last' = Stored("vhost", file_path, found_vhost)
    /\ pc' = "root_test"
    /\ UNCHANGED <<config, error_trace, error_detail, tailVars, timers,
                   histVars, ttlCaches, file_path, line_number, dir_path,
                   repo_root, git_remote, blame, rootUsed, rootTest, budgets>>

\* line 219: if dir_path in self.git_root_cache
RootTest ==
    /\ UNCHANGED inputs
    /\ pc = "root_test"
    /\ rootTest' = [tested |-> TRUE,
                    stored |-> last.root[dir_path].stored,
                    age |-> last.root[dir_path].age,
                    used |-> rootUsed[dir_path],
                    hit |-> Contains(git_root_cache, dir_path)]
    /\ pc' = IF Contains(git_root_cache, dir_path)
             THEN "root_read" ELSE "root_query"
    /\ UNCHANGED <<config, error_trace, error_detail, tailVars, timers,
                   histVars, aged, vhost_cache, locals, rootUsed, resolved,
                   budgets>>

\* line 220: repo_root = self.git_root_cache[dir_path]
RootRead ==
    /\ UNCHANGED inputs
    /\ pc = "root_read"
    /\ git_root_cache' = Touched(git_root_cache, dir_path)
    /\ rootUsed' = UseRoot(dir_path)
    /\ IF Contains(git_root_cache, dir_path)
       THEN /\ repo_root' = ValueOf(git_root_cache, dir_path)
            /\ resolved' = Answer("root", dir_path, FALSE,
                                  ValueOf(git_root_cache, dir_path))
            /\ pc' = "remote_test"
            /\ UNCHANGED handled
       ELSE /\ handled' = "KeyError"
            /\ pc' = "resume"
            /\ UNCHANGED <<repo_root, resolved>>
    /\ UNCHANGED <<config, error_trace, error_detail, tailVars, timers,
                   arrivedQuiet, readQuiet, traces, posts, failed,
                   git_remote_cache, git_blame_cache, last, vhost_cache,
                   file_path, line_number, dir_path, vhost, git_remote, blame,
                   rootTest, budgets>>

\* What `git rev-parse --show-toplevel` run in dir_path comes to: the root
\* of the repository, a non-zero exit (CalledProcessError), or no process at
\* all, dir_path or git missing (an OSError).
RootResults == {"toplevel", "CalledProcessError", "OSError"}

toplevel == [d \in Dirs |-> d]

\* lines 221-229: except subprocess.CalledProcessError
RootRaises(r) == r = "OSError"

\* lines 221-230: the repo-root query and the store of its result.
RootQuery ==
    /\ UNCHANGED inputs
    /\ pc = "root_query"
    /\ \E r \in RootResults :
          IF RootRaises(r)
          THEN /\ handled' = r
               /\ pc' = "resume"
               /\ UNCHANGED <<git_root_cache, last, repo_root, rootUsed,
                              resolved>>
          ELSE LET value == IF r = "toplevel" THEN toplevel[dir_path]
                            ELSE "None" IN
               /\ repo_root' = value
               /\ git_root_cache' =
                     SetItem(git_root_cache, dir_path, value, RootMaxsize)
               /\ last' = Stored("root", dir_path, value)
               /\ rootUsed' = UseRoot(dir_path)
               /\ resolved' = Answer("root", dir_path, TRUE, value)
               /\ pc' = "remote_test"
               /\ UNCHANGED handled
    /\ UNCHANGED <<config, error_trace, error_detail, tailVars, timers,
                   arrivedQuiet, readQuiet, traces, posts, failed,
                   git_remote_cache, git_blame_cache, vhost_cache, file_path,
                   line_number, dir_path, vhost, git_remote, blame, rootTest,
                   budgets>>

\* line 232: if dir_path in self.git_remote_cache
RemoteTest ==
    /\ UNCHANGED inputs
    /\ pc = "remote_test"
    /\ pc' = IF Contains(git_remote_cache, dir_path)
             THEN "remote_read" ELSE "remote_query"
    /\ UNCHANGED <<config, error_trace, error_detail, tailVars, timers,
                   histVars, enrichVars>>

\* line 233: git_remote = self.git_remote_cache[dir_path]
RemoteRead ==
    /\ UNCHANGED inputs
    /\ pc = "remote_read"
    /\ git_remote_cache' = Touched(git_remote_cache, dir_path)
    /\ IF Contains(git_remote_cache, dir_path)
       THEN /\ git_remote' = ValueOf(git_remote_cache, dir_path)
            /\ resolved' = Answer("remote", dir_path, FALSE,
                                  ValueOf(git_remote_cache, dir_path))
            /\ pc' = "blame"
            /\ UNCHANGED handled
       ELSE /\ handled' = "KeyError"
            /\ pc' = "resume"
            /\ UNCHANGED <<git_remote, resolved>>
    /\ UNCHANGED <<config, error_trace, error_detail, tailVars, timers,
                   arrivedQuiet, readQuiet, traces, posts, failed,
                   git_root_cache, git_blame_cache, last, vhost_cache,
                   file_path, line_number, dir_path, vhost, repo_root, blame,
                   rootUsed, rootTest, budgets>>

\* lines 235-237: subprocess.getoutput of a shell command that ends in
\* `|| echo 'unknown'`: it raises for no exit status.
RemoteResults == {"origin.git", "unknown"}

\* lines 234-238: the remote query and the store of its result.
RemoteQuery ==
    /\ UNCHANGED inputs
    /\ pc = "remote_query"
    /\ \E value \in RemoteResults :
          /\ git_remote' = value
          /\ git_remote_cache' =
                SetItem(git_remote_cache, dir_path, value, RemoteMaxsize)
          /\ last' = Stored("remote", dir_path, value)
          /\ resolved' = Answer("remote", dir_path, TRUE, value)
    /\ pc' = "blame"
    /\ UNCHANGED <<config, error_trace, error_detail, tailVars, timers,
                   histVars, git_root_cache, git_blame_cache, vhost_cache,
                   file_path, line_number, dir_path, vhost, repo_root, blame,
                   rootUsed, rootTest, budgets>>

\* ----------------------------------------------------------- get_git_blame
\* What the queries of get_git_blame come to, when repo_path is set: blame
\* reports a committed line; blame reports an uncommitted line and the diff
\* and the file's mtime are read; git blame or git diff exits non-zero
\* (CalledProcessError); or repo_path, git or the file is missing: no
\* process is started, or os.path.getmtime fails (an OSError).
BlameResults == {"committed", "uncommitted", "CalledProcessError", "OSError"}

\* lines 339-341: except subprocess.CalledProcessError
BlameRaises(r) == r = "OSError"

\* lines 272-341: the record get_git_blame returns when it does not raise.
get_git_blame(repo_path, r) ==
    IF repo_path = "None" \/ r = "CalledProcessError" THEN "None" ELSE r

\* The results there are for get_git_blame to meet: none is met when
\* repo_path is not set (lines 272-273), for no query is made.
BlameResultsFor(repo_path) ==
    IF repo_path = "None" THEN {"committed"} ELSE BlameResults

\* lines 242-243: blame = self.get_git_blame(...), stored under blame_key.
Blame ==
    /\ UNCHANGED inputs
    /\ pc = "blame"
    /\ \E r \in BlameResultsFor(repo_root) :
          IF repo_root # "None" /\ BlameRaises(r)
          THEN /\ handled' = r
               /\ pc' = "resume"
               /\ UNCHANGED <<git_blame_cache, last, blame, resolved>>
          ELSE /\ blame' = get_git_blame(repo_root, r)
               /\ git_blame_cache' =
                     SetItem(git_blame_cache, BlameKey(file_path, line_number),
                             get_git_blame(repo_root, r), BlameMaxsize)
               /\ last' = Stored("blame", BlameKey(file_path, line_number),
                                 get_git_blame(repo_root, r))
               /\ resolved' = Answer("blame", BlameKey(file_path, line_number),
                                     repo_root # "None",
                                     get_git_blame(repo_root, r))
               /\ pc' = "blame_test"
               /\ UNCHANGED handled
    /\ UNCHANGED <<config, error_trace, error_detail, tailVars, timers,
                   arrivedQuiet, readQuiet, traces, posts, failed,
                   git_root_cache, git_remote_cache, vhost_cache, file_path,
                   line_number, dir_path, vhost, repo_root, git_remote,
                   rootUsed, rootTest, budgets>>

\* lines 245-249: the membership test, and on a miss the second call of
\* get_git_blame and the store of its result.
BlameTest ==
    /\ UNCHANGED inputs
    /\ pc = "blame_test"
    /\ IF Contains(git_blame_cache, BlameKey(file_path, line_number))
       THEN /\ pc' = "blame_read"
            /\ UNCHANGED <<handled, git_blame_cache, last, blame, resolved>>
       ELSE \E r \in BlameResultsFor(repo_root) :
               IF repo_root # "None" /\ BlameRaises(r)
               THEN /\ handled' = r
                    /\ pc' = "resume"
                    /\ UNCHANGED <<git_blame_cache, last, blame, resolved>>
               ELSE /\ blame' = get_git_blame(repo_root, r)
                    /\ git_blame_cache' =
                          SetItem(git_blame_cache,
                                  BlameKey(file_path, line_number),
                                  get_git_blame(repo_root, r), BlameMaxsize)
                    /\ last' = Stored("blame",
                                      BlameKey(file_path, line_number),
                                      get_git_blame(repo_root, r))
                    /\ resolved' = Answer("blame",
                                          BlameKey(file_path, line_number),
                                          repo_root # "None",
                                          get_git_blame(repo_root, r))
                    /\ pc' = "return"
                    /\ UNCHANGED handled
    /\ UNCHANGED <<config, error_trace, error_detail, tailVars, timers,
                   arrivedQuiet, readQuiet, traces, posts, failed,
                   git_root_cache, git_remote_cache, vhost_cache, file_path,
                   line_number, dir_path, vhost, repo_root, git_remote,
                   rootUsed, rootTest, budgets>>

\* line 246: blame = self.git_blame_cache[blame_key]
BlameRead ==
    /\ UNCHANGED inputs
    /\ pc = "blame_read"
    /\ git_blame_cache' =
          Touched(git_blame_cache, BlameKey(file_path, line_number))
    /\ IF Contains(git_blame_cache, BlameKey(file_path, line_number))
       THEN /\ blame' = ValueOf(git_blame_cache,
                                BlameKey(file_path, line_number))
            /\ pc' = "return"
            /\ UNCHANGED handled
       ELSE /\ handled' = "KeyError"
            /\ pc' = "resume"
            /\ UNCHANGED blame
    /\ UNCHANGED <<config, error_trace, error_detail, tailVars, timers,
                   arrivedQuiet, readQuiet, traces, posts, failed,
                   git_root_cache, git_remote_cache, last, vhost_cache,
                   file_path, line_number, dir_path, vhost, repo_root,
                   git_remote, rootUsed, rootTest, resolved, budgets>>

\* lines 251-258: the record is returned to send_to_n8n (line 99); its
\* fields are the locals.
Return ==
    /\ UNCHANGED inputs
    /\ pc = "return"
    /\ error_detail' = "detail"
    /\ pc' = "post"
    /\ UNCHANGED <<config, error_trace, tailVars, timers, histVars,
                   enrichVars>>

\* ------------------------------------------------- SpecEnrich's other steps
\* The places of get_project_info between a membership test that has found
\* the key and the read of its entry (lines 219-220, 232-233, 245-246).
ReadPcs == {"root_read", "remote_read", "blame_read"}

\* Those, and the place between the store of line 243 and the membership
\* test of line 245.
TickPcs == ReadPcs \union {"blame_test"}

\* A tick passes between the test and the read, or between the store and
\* the test (the process is not scheduled for a while).
Tick ==
    /\ UNCHANGED inputs
    /\ pc \in TickPcs
    /\ ticks < MaxTicks
    /\ Elapse(1)
    /\ ticks' = ticks + 1
    /\ UNCHANGED <<config, pc, error_trace, error_detail, tailVars, histVars,
                   vhost_cache, locals, rootUsed, rootTest, resolved, calls,
                   others>>

\* The time tail_log takes to yield the next trace: the quiet period at
\* least, and as long as the log takes to get its next lines.
Waits == {fcntl_wait_time, ttl - 1}

\* lines 105-150 in one step: tail_log, started or resumed, yields a trace.
TailLogYields ==
    /\ UNCHANGED inputs
    /\ pc = "scan"
    /\ calls < MaxCalls
    /\ \E trace \in TracesE, wait \in Waits :
          /\ Elapse(wait)
          /\ error_trace' = trace
    /\ calls' = calls + 1
    /\ pc' = "run"
    /\ UNCHANGED <<config, error_detail, tailVars, histVars, vhost_cache,
                   locals, rootUsed, rootTest, resolved, ticks, others>>

\* run() is done with the trace and asks tail_log for the next one.
ResumeScan ==
    /\ UNCHANGED inputs
    /\ pc = "resume"
    /\ pc' = "scan"
    /\ error_detail' = "unset"
    /\ handled' = "none"
    /\ posts' = <<>>
    /\ file_path' = ""
    /\ line_number' = 0
    /\ dir_path' = ""
    /\ vhost' = {}
    /\ repo_root' = "None"
    /\ git_remote' = ""
    /\ blame' = "None"
    /\ rootTest' = NoRootTest
    /\ resolved' = [r \in Resolvers |-> NotResolved(r)]
    /\ UNCHANGED <<config, error_trace, tailVars, timers, arrivedQuiet,
                   readQuiet, traces, failed, aged, vhost_cache, rootUsed,
                   budgets>>

\* A burst of traces: as many as git_root_cache has room for.
Burst == RootMaxsize

\* The time the traces of a burst take: each ends with a quiet period.
BurstTime == Burst * fcntl_wait_time

\* lines 219-243, for a burst of traces that refer to as many other
\* directories and files, all enriched and delivered: each call stores one
\* entry in each TTL cache.
OtherTraces ==
    /\ UNCHANGED inputs
    /\ pc = "scan"
    /\ others < MaxOthers
    /\ git_root_cache' =
          AddOthers(Aged(git_root_cache, BurstTime), "others", Burst,
                    RootMaxsize)
    /\ git_remote_cache' =
          AddOthers(Aged(git_remote_cache, BurstTime), "others", Burst,
                    RemoteMaxsize)
    /\ git_blame_cache' =
          AddOthers(Aged(git_blame_cache, BurstTime), BlameKey("others", 0),
                    Burst, BlameMaxsize)
    /\ last' = [r \in DOMAIN last |->
                  IF r = "vhost" THEN last[r]
                  ELSE AgedAnswers(last[r], BurstTime)]
    /\ rootUsed' = [d \in Dirs |->
                      Later(rootUsed[d], Burst, RootMaxsize)]
    /\ others' = others + 1
    /\ UNCHANGED <<config, pc, error_trace, error_detail, tailVars, timers,
                   histVars, vhost_cache, locals, rootTest, resolved, calls,
                   ticks>>

\* ------------------------------------- get_git_blame, statement by statement
\* The commit ids a blame may print for the line: the all-zero id of a line
\* not committed yet, the id of a commit that begins with eight zeros, and
\* the id of any other commit.
ZeroId == "0000000000000000000000000000000000000000"
ZerosId == "00000000f1e2d3c4b5a697887766554433221100"
OtherId == "f1e2d3c4b5a6978877665544332211000fedcba9"
CommitIds == {ZeroId, ZerosId, OtherId}

\* What get_git_blame reads of the porcelain output: the commit id at the
\* start of its first line and the text of its summary line.
BlameOutputs == [id : CommitIds, summary : {"git's summary"}]
NoBlameOutput == [id |-> "", summary |-> ""]

\* line 292: re.match(r"^0{8,40}", line), on the lines of a porcelain
\* output: only its first line begins with a digit.
StartsWithZeros(output) == output.id \in {ZeroId, ZerosId}

\* line 301: line.split()[0][:8]
First8(id) ==
    CASE id = ZeroId -> "00000000"
      [] id = ZerosId -> "00000000"
      [] id = OtherId -> "f1e2d3c4"

\* The lines of a diff: "diff" for a line that begins with none of
\* '@@', '+', '-' and ' ' (diff --git ..., index ...); "---" and "+++" for
\* the two lines that name the file; "@@" for a hunk header with the start
\* and the count of its '+c,d', the count 1 being left out as git leaves it
\* out; "+", "-" and " " for an added, a removed and a context line.
DiffLine(kind) == [kind |-> kind, start |-> 0, count |-> 0, counted |-> FALSE]
HunkHeader(start, count) ==
    [kind |-> "@@", start |-> start, count |-> count, counted |-> count # 1]

FileHeader == <<DiffLine("diff"), DiffLine("---"), DiffLine("+++")>>

Bodies == UNION {[1..n -> {"+", "-", " "}] : n \in 1..MaxBody}

\* The lines of a body that are lines of the new file.
NewLines(body) == {i \in DOMAIN body : body[i] # "-"}

Hunk(start, body) ==
    <<HunkHeader(start, Cardinality(NewLines(body)))>>
        \o [i \in DOMAIN body |-> DiffLine(body[i])]

\* The hunks that start at one of starts, and the pairs of hunks of which
\* the first does, the second starting one unchanged line after the first.
OneHunk(starts) == {Hunk(s, b) : s \in starts, b \in Bodies}

TwoHunks(starts) ==
    UNION {{Hunk(s, b) \o h :
               h \in OneHunk({s + Cardinality(NewLines(b)) + 1})} :
              s \in starts, b \in Bodies}

\* '@@ -5,3 +5,4 @@' with '+foo();' as line 7 of the new file.
ExampleDiff == FileHeader \o Hunk(5, <<" ", " ", "+", " ">>)

Diffs ==
    {FileHeader \o h : h \in OneHunk(1..MaxStart) \union TwoHunks(1..MaxStart)}
        \union {ExampleDiff}

\* The line numbers asked for: those of the new file the diffs reach.
LineNumbers(diff) ==
    1..(CHOOSE m \in 0..(5 + 4 + MaxStart + 2 * (MaxBody + 1)) :
           /\ \A i \in DOMAIN diff :
                 diff[i].kind = "@@" => diff[i].start + diff[i].count <= m
           /\ \E i \in DOMAIN diff :
                 diff[i].kind = "@@" /\ diff[i].start + diff[i].count = m)

\* lines 283-301: the loop over the lines of blame_output.
ParseBlame ==
    /\ pc = "get_git_blame"
    /\ blame' = [is_local_changes |-> StartsWithZeros(blame_output),
                 commit |-> First8(blame_output.id),
                 summary |-> [text |-> blame_output.summary, diff |-> 0]]
    /\ pc' = IF blame'.is_local_changes THEN "git_diff" ELSE "blame_returned"
    /\ UNCHANGED <<config, error_trace, error_detail, tailVars, timers,
                   histVars, aged, vhost_cache, file_path, line_number,
                   dir_path, vhost, repo_root, git_remote, rootUsed, rootTest,
                   resolved, budgets, inputs>>

\* lines 304-314: git diff has printed diff_output; the loop is set up.
ReadDiff ==
    /\ pc = "git_diff"
    /\ line_diff' = 0
    /\ current_line' = 0
    /\ diff_pos' = 1
    /\ pc' = "diff_loop"
    /\ UNCHANGED <<config, error_trace, error_detail, tailVars, timers,
                   histVars, enrichVars, sites_enabled, blame_output,
                   diff_output, sharedVars>>

\* lines 316-329: one turn of the loop over the lines of diff_output.
DiffLoop ==
    /\ pc = "diff_loop"
    /\ IF diff_pos > Len(diff_output)
       THEN /\ pc' = "summary"
            /\ UNCHANGED blameLocals
       ELSE LET diff_line == diff_output[diff_pos]
                match == diff_line.kind = "@@"
                \* line 318 sets in_hunk in every turn, so that what line
                \* 323 gave it in the turn of the header is never read
                in_hunk == TRUE
                start_line == diff_line.start
                line_count == IF diff_line.counted THEN diff_line.count ELSE 1
            IN  IF match
                THEN /\ current_line' = start_line
                     /\ diff_pos' = diff_pos + 1
                     /\ UNCHANGED <<line_diff, pc>>
                ELSE IF in_hunk /\ diff_line.kind \in {"+", "+++", "-", "---", " "}
                     THEN IF current_line = line_number
                          THEN /\ line_diff' = diff_pos
                               /\ pc' = "summary"
                               /\ UNCHANGED <<current_line, diff_pos>>
                          ELSE /\ current_line' =
                                      IF diff_line.kind \in {"-", "---"}
                                      THEN current_line
                                      ELSE current_line + 1
                               /\ diff_pos' = diff_pos + 1
                               /\ UNCHANGED <<line_diff, pc>>
                     ELSE /\ diff_pos' = diff_pos + 1
                          /\ UNCHANGED <<current_line, line_diff, pc>>
    /\ UNCHANGED <<config, error_trace, error_detail, tailVars, timers,
                   histVars, enrichVars, sites_enabled, blame_output,
                   diff_output, sharedVars>>

\* lines 331-337: the summary is written anew and the record returned.
Summary ==
    /\ pc = "summary"
    /\ blame' = [blame EXCEPT !.summary =
                    [text |-> "[Uncommitted changes] Last modified: ...",
                     diff |-> line_diff]]
    /\ pc' = "blame_returned"
    /\ UNCHANGED <<config, error_trace, error_detail, tailVars, timers,
                   histVars, aged, vhost_cache, file_path, line_number,
                   dir_path, vhost, repo_root, git_remote, rootUsed, rootTest,
                   resolved, budgets, inputs>>

\* ------------------------------ get_project_info, two calls interleaved
\* The two calls, and what a call holds: its place, the reference it has
\* parsed, its locals, and the exception that ended it ("" for none).
Calls == 1..2

NoCaller ==
    [pc |-> "", file |-> "", line |-> 0, dir_path |-> "", repo_root |-> "None",
     git_remote |-> "", blame |-> "None", raised |-> ""]

Caller(ref) ==
    [NoCaller EXCEPT !.pc = "root_test", !.file = ref.file, !.line = ref.line,
                     !.dir_path = abspath[dirname[ref.file]]]

\* What the queries have returned so far.
NoneReturned ==
    [root |-> [d \in Dirs |-> {}],
     remote |-> [d \in Dirs |-> {}],
     blame |-> [k \in BlameKeys |-> {}]]

Returned(r, key, value) ==
    [returned EXCEPT ![r][key] = @ \union {value}]

\* git_root_cache as earlier calls have left it: empty, or full, with the
\* entry of d the least recently used one.
FullRootCache(d) ==
    <<Entry(d, toplevel[d]),
      [other |-> TRUE, key |-> d, value |-> "None", n |-> RootMaxsize - 1,
       age |-> 0]>>

\* What a step of a call leaves alone besides the caches and the callers.
sharedRest ==
    <<config, pc, error_trace, error_detail, tailVars, timers, histVars, last,
      enrichRest, sites_enabled, blame_output, diff_output, blameLocals>>

\* Call c goes on to place with its locals as in new.
Goes(c, place, new) ==
    callers' = [callers EXCEPT ![c] = [new EXCEPT !.pc = place]]

\* line 219: if dir_path in self.git_root_cache
SharedRootTest(c) ==
    /\ callers[c].pc = "root_test"
    /\ Goes(c, IF Contains(git_root_cache, callers[c].dir_path)
               THEN "root_read" ELSE "root_query", callers[c])
    /\ UNCHANGED <<ttlCaches, returned, sharedRest>>

\* line 220: repo_root = self.git_root_cache[dir_path]
SharedRootRead(c) ==
    /\ callers[c].pc = "root_read"
    /\ git_root_cache' = Touched(git_root_cache, callers[c].dir_path)
    /\ IF Contains(git_root_cache, callers[c].dir_path)
       THEN Goes(c, "remote_test",
                 [callers[c] EXCEPT !.repo_root =
                     ValueOf(git_root_cache, callers[c].dir_path)])
       ELSE Goes(c, "raised", [callers[c] EXCEPT !.raised = "KeyError"])
    /\ UNCHANGED <<git_remote_cache, git_blame_cache, returned, sharedRest>>

\* lines 222-229: the repo-root query
SharedRootQuery(c) ==
    /\ callers[c].pc = "root_query"
    /\ \E r \in RootResults :
          IF RootRaises(r)
          THEN /\ Goes(c, "raised", [callers[c] EXCEPT !.raised = r])
               /\ UNCHANGED returned
          ELSE LET value == IF r = "toplevel"
                            THEN toplevel[callers[c].dir_path]
                            ELSE "None" IN
               /\ Goes(c, "root_store", [callers[c] EXCEPT !.repo_root = value])
               /\ returned' = Returned("root", callers[c].dir_path, value)
    /\ UNCHANGED <<ttlCaches, sharedRest>>

\* line 230: self.git_root_cache[dir_path] = repo_root
SharedRootStore(c) ==
    /\ callers[c].pc = "root_store"
    /\ git_root_cache' = SetItem(git_root_cache, callers[c].dir_path,
                                 callers[c].repo_root, RootMaxsize)
    /\ Goes(c, "remote_test", callers[c])
    /\ UNCHANGED <<git_remote_cache, git_blame_cache, returned, sharedRest>>

\* line 232: if dir_path in self.git_remote_cache
SharedRemoteTest(c) ==
    /\ callers[c].pc = "remote_test"
    /\ Goes(c, IF Contains(git_remote_cache, callers[c].dir_path)
               THEN "remote_read" ELSE "remote_query", callers[c])
    /\ UNCHANGED <<ttlCaches, returned, sharedRest>>

\* line 233: git_remote = self.git_remote_cache[dir_path]
SharedRemoteRead(c) ==
    /\ callers[c].pc = "remote_read"
    /\ git_remote_cache' = Touched(git_remote_cache, callers[c].dir_path)
    /\ IF Contains(git_remote_cache, callers[c].dir_path)
       THEN Goes(c, "blame",
                 [callers[c] EXCEPT !.git_remote =
                     ValueOf(git_remote_cache, callers[c].dir_path)])
       ELSE Goes(c, "raised", [callers[c] EXCEPT !.raised = "KeyError"])
    /\ UNCHANGED <<git_root_cache, git_blame_cache, returned, sharedRest>>

\* lines 235-237: the remote query
SharedRemoteQuery(c) ==
    /\ callers[c].pc = "remote_query"
    /\ \E value \in RemoteResults :
          /\ Goes(c, "remote_store", [callers[c] EXCEPT !.git_remote = value])
          /\ returned' = Returned("remote", callers[c].dir_path, value)
    /\ UNCHANGED <<ttlCaches, sharedRest>>

\* line 238: self.git_remote_cache[dir_path] = git_remote
SharedRemoteStore(c) ==
    /\ callers[c].pc = "remote_store"
    /\ git_remote_cache' = SetItem(git_remote_cache, callers[c].dir_path,
                                   callers[c].git_remote, RemoteMaxsize)
    /\ Goes(c, "blame", callers[c])
    /\ UNCHANGED <<git_root_cache, git_blame_cache, returned, sharedRest>>

\* line 242: blame = self.get_git_blame(file_path, line_number, repo_root)
SharedBlame(c) ==
    /\ callers[c].pc = "blame"
    /\ \E r \in BlameResultsFor(callers[c].repo_root) :
          IF callers[c].repo_root # "None" /\ BlameRaises(r)
          THEN /\ Goes(c, "raised", [callers[c] EXCEPT !.raised = r])
               /\ UNCHANGED returned
          ELSE /\ Goes(c, "blame_store",
                       [callers[c] EXCEPT !.blame =
                           get_git_blame(callers[c].repo_root, r)])
               /\ returned' =
                     Returned("blame", BlameKey(callers[c].file, callers[c].line),
                              get_git_blame(callers[c].repo_root, r))
    /\ UNCHANGED <<ttlCaches, sharedRest>>

\* line 243: self.git_blame_cache[blame_key] = blame
SharedBlameStore(c) ==
    /\ callers[c].pc = "blame_store"
    /\ git_blame_cache' =
          SetItem(git_blame_cache, BlameKey(callers[c].file, callers[c].line),
                  callers[c].blame, BlameMaxsize)
    /\ Goes(c, "blame_test", callers[c])
    /\ UNCHANGED <<git_root_cache, git_remote_cache, returned, sharedRest>>

\* lines 245-249: the membership test; the key stored at line 243 is there,
\* whatever the other call has stored since.
SharedBlameTest(c) ==
    /\ callers[c].pc = "blame_test"
    /\ Goes(c, IF Contains(git_blame_cache,
                           BlameKey(callers[c].file, callers[c].line))
               THEN "blame_read" ELSE "blame_again", callers[c])
    /\ UNCHANGED <<ttlCaches, returned, sharedRest>>

\* lines 246, 251-258: blame = self.git_blame_cache[blame_key]; return
SharedBlameRead(c) ==
    /\ callers[c].pc = "blame_read"
    /\ git_blame_cache' =
          Touched(git_blame_cache, BlameKey(callers[c].file, callers[c].line))
    /\ IF Contains(git_blame_cache, BlameKey(callers[c].file, callers[c].line))
       THEN Goes(c, "returned",
                 [callers[c] EXCEPT !.blame =
                     ValueOf(git_blame_cache,
                             BlameKey(callers[c].file, callers[c].line))])
       ELSE Goes(c, "raised", [callers[c] EXCEPT !.raised = "KeyError"])
    /\ UNCHANGED <<git_root_cache, git_remote_cache, returned, sharedRest>>

\* ------------------------------------------------------------ the program
\* The state after LogWatcher(...) is constructed: load_config has run once
\* (line 48) and has loaded some config, or has failed and left {}.
Constructed ==
    /\ config \in Configs
    /\ log = <<>>
    /\ pos = 0
    /\ line = [n |-> 0, start |-> FALSE]
    /\ current_trace = <<>>
    /\ fcntl_elapsed = 0
    /\ error_trace = <<>>
    /\ error_detail = "unset"
    /\ sinceArrived = 0
    /\ arrivedQuiet = <<>>
    /\ sinceRead = 0
    /\ readQuiet = <<>>
    /\ traces = <<>>
    /\ handled = "none"
    /\ posts = <<>>
    /\ failed = FALSE
    /\ vhost_cache = [f \in HostPaths |-> [held |-> FALSE, value |-> {}]]
    /\ git_remote_cache = <<>>
    /\ git_blame_cache = <<>>
    /\ dir_path = ""
    /\ vhost = {}
    /\ repo_root = "None"
    /\ git_remote = ""
    /\ blame = "None"
    /\ last = [vhost |-> [f \in FilePaths |->
                             [stored |-> FALSE, value |-> {}, age |-> 0]],
               root |-> [d \in Dirs |->
                            [stored |-> FALSE, value |-> "None", age |-> 0]],
               remote |-> [d \in Dirs |->
                              [stored |-> FALSE, value |-> "None", age |-> 0]],
               blame |-> [k \in BlameKeys |->
                             [stored |-> FALSE, value |-> "None", age |-> 0]]]
    /\ rootUsed = [d \in Dirs |-> 0]
    /\ rootTest = NoRootTest
    /\ resolved = [r \in Resolvers |-> NotResolved(r)]
    /\ calls = 0
    /\ ticks = 0
    /\ others = 0

\* run() is about to call tail_log (line 153).
Init ==
    /\ Constructed
    /\ pc = "start"
    /\ file_path = ""
    /\ line_number = 0
    /\ sites_enabled = {}
    /\ blame_output = NoBlameOutput
    /\ diff_output = <<>>
    /\ diff_pos = 0
    /\ current_line = 0
    /\ line_diff = 0
    /\ git_root_cache = <<>>
    /\ callers = [c \in Calls |-> NoCaller]
    /\ returned = NoneReturned

Next ==
    \/ WriteLine
    \/ TailStart
    \/ ScanRead
    \/ ScanSleep
    \/ CollectRead
    \/ CollectSleep
    \/ Resume
    \/ RunBody
    \/ SendToN8n
    \/ GetProjectInfoReturns
    \/ Post

Spec == Init /\ [][Next]_vars

\* The steps of the program itself: all but the writer of the log.
Program ==
    \/ TailStart
    \/ ScanRead
    \/ ScanSleep
    \/ CollectRead
    \/ CollectSleep
    \/ Resume
    \/ RunBody
    \/ SendToN8n
    \/ GetProjectInfoReturns
    \/ Post

\* The process is scheduled, its sleeps and calls return, and run() asks
\* for the next trace after each one: the program always takes its next step.
\* Nothing is assumed of the writer of the log.
FairSpec == Spec /\ WF_vars(Program)

\* SpecEnrich: the same program, with get_project_info taken statement by
\* statement and tail_log taken as one step.
NextEnrich ==
    \/ TailStart
    \/ TailLogYields
    \/ OtherTraces
    \/ RunBody
    \/ SendToN8n
    \/ Parse
    \/ FindVhost
    \/ RootTest
    \/ RootRead
    \/ RootQuery
    \/ RemoteTest
    \/ RemoteRead
    \/ RemoteQuery
    \/ Blame
    \/ BlameTest
    \/ BlameRead
    \/ Return
    \/ Tick
    \/ Post
    \/ ResumeScan

SpecEnrich == Init /\ [][NextEnrich]_vars

\* SpecVhost: find_vhost_for_path on its own, called with the cache empty
\* on any of the file paths, with any of the host configs in vhost_dir.
InitVhost ==
    /\ Constructed
    /\ pc = "find_vhost_for_path"
    /\ file_path \in HostPaths
    /\ line_number = 0
    /\ sites_enabled \in SUBSET HostSites
    /\ blame_output = NoBlameOutput
    /\ diff_output = <<>>
    /\ diff_pos = 0
    /\ current_line = 0
    /\ line_diff = 0
    /\ git_root_cache = <<>>
    /\ callers = [c \in Calls |-> NoCaller]
    /\ returned = NoneReturned

NextVhost ==
    \/ FindVhostForPath

SpecVhost == InitVhost /\ [][NextVhost]_vars

\* SpecBlame: get_git_blame on its own, from the output of git blame on:
\* for a line of any number, with any commit id in the blame and any diff.
InitBlame ==
    /\ Constructed
    /\ pc = "get_git_blame"
    /\ file_path = "/var/www/a.php"
    /\ sites_enabled = {}
    /\ blame_output \in BlameOutputs
    /\ diff_output \in Diffs
    /\ line_number \in LineNumbers(diff_output)
    /\ diff_pos = 0
    /\ current_line = 0
    /\ line_diff = 0
    /\ git_root_cache = <<>>
    /\ callers = [c \in Calls |-> NoCaller]
    /\ returned = NoneReturned

NextBlame ==
    \/ ParseBlame
    \/ ReadDiff
    \/ DiffLoop
    \/ Summary

SpecBlame == InitBlame /\ [][NextBlame]_vars

\* SpecShared: two calls of get_project_info past find_vhost_for_path, their
\* cache steps and queries interleaved in every order; git_root_cache is
\* empty or full.
InitShared ==
    /\ Constructed
    /\ pc = "shared"
    /\ file_path = ""
    /\ line_number = 0
    /\ sites_enabled = {}
    /\ blame_output = NoBlameOutput
    /\ diff_output = <<>>
    /\ diff_pos = 0
    /\ current_line = 0
    /\ line_diff = 0
    /\ callers \in [Calls -> {Caller(ref) : ref \in Refs}]
    /\ \/ /\ git_root_cache = <<>>
          /\ returned = NoneReturned
       \/ \E d \in Dirs :
             /\ git_root_cache = FullRootCache(d)
             /\ returned = [NoneReturned EXCEPT !.root[d] = {toplevel[d]}]

NextShared ==
    \/ \E c \in Calls : SharedRootTest(c)
    \/ \E c \in Calls : SharedRootRead(c)
    \/ \E c \in Calls : SharedRootQuery(c)
    \/ \E c \in Calls : SharedRootStore(c)
    \/ \E c \in Calls : SharedRemoteTest(c)
    \/ \E c \in Calls : SharedRemoteRead(c)
    \/ \E c \in Calls : SharedRemoteQuery(c)
    \/ \E c \in Calls : SharedRemoteStore(c)
    \/ \E c \in Calls : SharedBlame(c)
    \/ \E c \in Calls : SharedBlameStore(c)
    \/ \E c \in Calls : SharedBlameTest(c)
    \/ \E c \in Calls : SharedBlameRead(c)

SpecShared == InitShared /\ [][NextShared]_vars

\* ================================================================ claims
\* The lines of the traces yielded so far and of the pending accumulator.
\* TraceOf(n): the trace line n was put in: its number among the yielded
\* traces, Len(traces) + 1 for the pending accumulator, 0 for none.
InSeq(n, t) == \E j \in 1..Len(t) : t[j].n = n

TraceOf(n) ==
    IF \E k \in 1..Len(traces) : InSeq(n, traces[k].lines)
    THEN CHOOSE k \in 1..Len(traces) : InSeq(n, traces[k].lines)
    ELSE IF InSeq(n, current_trace) THEN Len(traces) + 1 ELSE 0

\* C1 (the claim as stated; the code breaks it): a line read while the
\* accumulator is empty that does not match the error-start pattern is
\* discarded, so the pending trace and every yielded trace begin with an
\* error-start line.
C1_TracesBeginWithErrorStart ==
    /\ current_trace # <<>> => ErrorStart(current_trace[1])
    /\ \A k \in 1..Len(traces) :
          traces[k].lines # <<>> => ErrorStart(traces[k].lines[1])

\* C2: a line read less than 2 s after the line before it is put in the
\* same trace as that line, whether or not it matches the error-start
\* pattern: two error-start lines read less than 2 s apart are never split.
C2_ReadWithinQuietPeriodSameTrace ==
    \A n \in 2..Len(readQuiet) :
        (TraceOf(n - 1) # 0 /\ ~readQuiet[n]) => TraceOf(n) = TraceOf(n - 1)

\* C2's case: a yielded trace holds two error-start lines, the second read
\* less than 2 s after the first.
C2_Witness ==
    \E k \in 1..Len(traces) :
        /\ Len(traces[k].lines) >= 2
        /\ ErrorStart(traces[k].lines[1])
        /\ ErrorStart(traces[k].lines[2])
        /\ ~readQuiet[traces[k].lines[2].n]

\* C3: when a trace is yielded, at least 2 s have passed since the last line
\* was read (every line read restarts the quiet-period timer).
C3_YieldOnlyAfterQuietPeriod ==
    pc = "run" => sinceRead >= fcntl_wait_time

\* C3's case: a trace is yielded whose last line was appended by the
\* quiet-period loop, after the timer had been running.
C3_Witness ==
    /\ pc = "run"
    /\ Len(error_trace) >= 2
    /\ traces[Len(traces)].place = "quiet"

\* C4: a non-empty pending trace is eventually yielded, the accumulator
\* emptied and the scanning loop entered again (the writer of the log writes
\* MaxLines lines at most, so the log does stop growing).
C4_PendingTraceEventuallyEmitted ==
    \A n \in 1..MaxLines :
        InSeq(n, current_trace)
            ~> (/\ pc \in {"scan", "scan_sleep"}
                /\ current_trace = <<>>
                /\ \E k \in 1..Len(traces) : InSeq(n, traces[k].lines))

\* C4's case: a trace has been yielded at the quiet-period timeout and the
\* tailer is scanning again with an empty accumulator.
C4_Witness ==
    /\ pc = "scan"
    /\ current_trace = <<>>
    /\ Len(traces) >= 1
    /\ traces[Len(traces)].place = "quiet"

\* C5: every yielded trace holds at least one line, and its lines are in the
\* order in which they were read (the order of the file).
C5_TracesNonEmptyInReadOrder ==
    \A k \in 1..Len(traces) :
        /\ Len(traces[k].lines) >= 1
        /\ \A i, j \in 1..Len(traces[k].lines) :
              i < j => traces[k].lines[i].n < traces[k].lines[j].n

\* C5's case: a trace of several lines has been yielded.
C5_Witness ==
    \E k \in 1..Len(traces) : Len(traces[k].lines) >= 2

\* C7: a failed post is caught in send_to_n8n and not retried (one call of
\* post per trace), run() goes on to ask tail_log for the next trace, and
\* every trace yielded while sending is enabled is handed to send_to_n8n.
C7_DeliveryFailureNotFatal ==
    /\ Len(posts) <= 1
    /\ pc # "crashed"
    /\ handled = "post_failed" => pc = "resume"
    /\ pc = "resume" => /\ handled # "none"
                        /\ handled = "disabled" <=> ~config.enabled

\* C7's case: after a failed post, a later trace has been handed to
\* send_to_n8n.
C7_Witness ==
    /\ failed
    /\ pc = "get_project_info"
    /\ posts = <<>>

\* Whether run() hands the trace in hand to send_to_n8n, with a URL to post
\* to (lines 161, 94).
Sending == config.enabled /\ config.n8n_url

\* C6: for a trace without a file/line reference, get_project_info returns
\* None: it does not raise and no resolver is called; and send_to_n8n, with
\* sending enabled and the URL set, makes one call of post that carries the
\* trace and error_detail None.
C6_NoReferenceStillDelivered ==
    (error_trace # <<>> /\ ~HasMatch(error_trace)) =>
        /\ pc \notin {"find_vhost", "root_test", "root_read", "root_query",
                      "remote_test", "remote_read", "remote_query", "blame",
                      "blame_test", "blame_read", "return"}
        /\ \A r \in Resolvers : ~resolved[r].done
        /\ pc = "post" => error_detail = "None" /\ handled = "none"
        /\ (pc = "resume" /\ Sending) =>
              /\ handled \in {"posted", "post_failed"}
              /\ Len(posts) = 1
              /\ posts[1].error_line = error_trace
              /\ posts[1].error_detail = "None"

\* C6's case: a trace without a reference has been posted, after a trace
\* with a reference was enriched.
C6_Witness ==
    /\ pc = "resume"
    /\ error_trace # <<>> /\ ~HasMatch(error_trace)
    /\ Len(posts) = 1
    /\ \E d \in Dirs : last.root[d].stored

\* C8 (the claim as stated; the code breaks it): whatever way a
\* version-control query fails, no exception leaves get_git_blame or
\* get_project_info, and the trace is delivered.
C8_QueryFailureBecomesAbsent ==
    /\ handled # "OSError"
    /\ (pc = "resume" /\ Sending) => Len(posts) = 1

\* C9 (the claim as stated; the code breaks it): a resolver that has
\* answered for a key, asked again for it with no TTL expiry in between,
\* gives the same answer and does not run its query again.
C9_SecondCallServedFromCache ==
    \A r \in Resolvers :
        (resolved[r].done /\ resolved[r].known) =>
            /\ ~resolved[r].queried
            /\ resolved[r].value = resolved[r].was

\* C10 (the claim as stated): at the membership test of line 219, an entry
\* stored for the directory less than 86400 s ago is found, and one stored
\* more than 86400 s ago is not.
C10_ServedUntilTtl ==
    (rootTest.tested /\ rootTest.stored) =>
        /\ rootTest.age < ttl => rootTest.hit
        /\ rootTest.age > ttl => ~rootTest.hit

\* C10 (amended): the entry stored for the directory less than 86400 s ago
\* is found at the membership test of line 219 and the stored value is
\* served without a query, unless RootMaxsize or more other entries of
\* git_root_cache have been stored or read since it was last stored or read
\* (the cache evicts its least recently used entry to store a new one when
\* it is full); an entry stored more than 86400 s ago is not found, and the
\* repo-root query is run again.
C10_ServedUntilTtlOrEvicted ==
    (rootTest.tested /\ rootTest.stored) =>
        /\ (rootTest.age < ttl /\ rootTest.used < RootMaxsize) => rootTest.hit
        /\ rootTest.age > ttl => ~rootTest.hit
        /\ pc = "root_read" => rootTest.hit
        /\ pc = "root_query" => ~rootTest.hit
        /\ resolved.root.done =>
              IF rootTest.hit
              THEN /\ ~resolved.root.queried
                   /\ resolved.root.value = resolved.root.was
              ELSE resolved.root.queried

\* C10's case: the entry of a directory, stored in an earlier call, has been
\* found and served.
C10_Witness ==
    /\ rootTest.tested /\ rootTest.stored /\ rootTest.hit
    /\ rootTest.age >= fcntl_wait_time
    /\ resolved.root.done

\* C11: once find_vhost_for_path has answered for a file path, the entry of
\* vhost_cache for that path, an absent answer included, is never changed or
\* removed; every later call for the path gives the same answer without
\* searching the host configs, whatever they hold by then.
C11_VhostEntryNeverChanges ==
    /\ [][\A f \in FilePaths :
            vhost_cache[f].held => vhost_cache'[f] = vhost_cache[f]]_vars
    /\ [](\A f \in FilePaths :
            vhost_cache[f].held =>
                /\ last.vhost[f].stored
                /\ vhost_cache[f].value = last.vhost[f].value)
    /\ []((resolved.vhost.done /\ resolved.vhost.known) =>
            /\ ~resolved.vhost.queried
            /\ resolved.vhost.value = resolved.vhost.was)

\* C11's case: a second call for a path whose answer was absent has been
\* answered.
C11_Witness ==
    /\ resolved.vhost.done
    /\ resolved.vhost.known
    /\ resolved.vhost.was = {}

\* The config of the nearest directory, from dir upward, that is one of the
\* directories the configs of enabled reference; none when there is none.
RECURSIVE NearestReferenced(_, _)
NearestReferenced(dir, enabled) ==
    IF dir \in enabled
    THEN {conf[dir]}
    ELSE IF dirname[dir] = dir
         THEN {}
         ELSE NearestReferenced(dirname[dir], enabled)

\* C12: on a cache miss find_vhost_for_path answers with the host config of
\* the nearest ancestor directory of the file that a host config
\* references, and with absent when no ancestor is referenced.
C12_NearestReferencedAncestor ==
    pc = "found_vhost" =>
        vhost = NearestReferenced(dirname[file_path], sites_enabled)

\* The number, under the '+c,d' of its hunk header, of the line of the new
\* file that line i of diff is: i is an added or a context line of a hunk.
NewFileLine(diff, i) ==
    LET header == CHOOSE h \in 1..i :
                      /\ diff[h].kind = "@@"
                      /\ \A k \in (h + 1)..i : diff[k].kind # "@@"
    IN  diff[header].start
            + Cardinality({k \in (header + 1)..(i - 1) :
                              diff[k].kind \in {"+", " "}})

\* The lines of diff that are line n of the new file.
LinesOfNewFile(diff, n) ==
    {i \in DOMAIN diff : /\ diff[i].kind \in {"+", " "}
                         /\ NewFileLine(diff, i) = n}

\* C13: the diff line selected for line_number is the context or added
\* line that is that line of the new file under the numbering of its hunk
\* header, and none is selected when the diff has no such line.
C13_SelectsLineOfNewFile ==
    pc = "summary" =>
        IF LinesOfNewFile(diff_output, line_number) = {}
        THEN line_diff = 0
        ELSE line_diff \in LinesOfNewFile(diff_output, line_number)

\* C14: the record get_git_blame returns has is_local_changes set and the
\* synthesized summary, with the matched diff line appended when one was
\* found, when the blame output holds the all-zero commit id; it has
\* is_local_changes unset and git's summary when it holds another id.
C14_LocalChangesIffAllZeroId ==
    pc = "blame_returned" =>
        IF blame_output.id = ZeroId
        THEN /\ blame.is_local_changes
             /\ blame.summary.text = "[Uncommitted changes] Last modified: ..."
             /\ blame.summary.diff = line_diff
        ELSE /\ ~blame.is_local_changes
             /\ blame.summary = [text |-> blame_output.summary, diff |-> 0]

\* C15: when log_file is unset or names no existing file as tail_log
\* starts, tail_log returns without a trace and without an error, and run()
\* enriches nothing and delivers nothing.
C15_NoLogFileNothingDone ==
    ~config.log_file =>
        /\ pc \in {"start", "returned"}
        /\ traces = <<>>
        /\ error_trace = <<>>
        /\ error_detail = "unset"
        /\ handled = "none"
        /\ posts = <<>>
        /\ ~failed

\* C15's case: tail_log has returned for want of a log file, with lines
\* written to the log all the same.
C15_Witness ==
    /\ ~config.log_file
    /\ pc = "returned"
    /\ Len(log) = MaxLines

\* C17: two lines that stand in the same trace, one after the other,
\* arrived in the log less than 2 s apart: a line that arrived 2 s or more
\* after the line before it is never put in the trace of that line.
C17_ArrivalGapEndsTrace ==
    \A n \in 2..Len(arrivedQuiet) :
        (TraceOf(n) # 0 /\ TraceOf(n) = TraceOf(n - 1)) => ~arrivedQuiet[n]

\* C18: get_git_blame is invoked exactly once in every call of
\* get_project_info that parses a file/line reference: a call that has
\* parsed one and is over has been through the call of line 242, and the
\* membership test of line 245 always finds the key stored at line 243, so
\* that the call of line 248 is never made.
C18_BlameInvokedExactlyOnce ==
    /\ pc = "blame_test" =>
           Contains(git_blame_cache, BlameKey(file_path, line_number))
    /\ (pc \in {"post", "resume"} /\ file_path # "") => resolved.blame.done

\* C19: whatever time passes between the membership test and the read of a
\* repo-root or remote lookup, the TTL running out in between included, the
\* lookup returns the stored value or goes on as a miss: the read of lines
\* 220 and 233 never raises.
C19_LookupNeverRaisesOnExpiry ==
    handled # "KeyError"

\* C20: at the top of the outer loop of tail_log the accumulator is empty,
\* so every trace is yielded by the quiet-period timeout of the inner loop
\* and the flush of line 132, on an error-start line, yields none.
C20_AccumulatorEmptyAtScan ==
    /\ pc \in {"scan", "scan_sleep"} => current_trace = <<>>
    /\ \A k \in 1..Len(traces) : traces[k].place = "quiet"

\* C20's case: after a yielded trace the outer loop is about to read an
\* error-start line, the line the test of line 131 looks for.
C20_Witness ==
    /\ pc = "scan"
    /\ traces # <<>>
    /\ pos < Len(log)
    /\ ErrorStart(log[pos + 1])

\* The entries of a cache that the model tells apart.
Entries(cache) == {i \in 1..Len(cache) : ~cache[i].other}

\* C16: in every interleaving of the cache steps of two get_project_info
\* calls no call fails on a cache access, and every cache entry holds a
\* value that the query of its key has returned.
C16_SharedCachesTolerateInterleaving ==
    /\ \A c \in Calls : callers[c].raised # "KeyError"
    /\ \A i \in Entries(git_root_cache) :
          git_root_cache[i].value \in returned.root[git_root_cache[i].key]
    /\ \A i \in Entries(git_remote_cache) :
          git_remote_cache[i].value \in returned.remote[git_remote_cache[i].key]
    /\ \A i \in Entries(git_blame_cache) :
          git_blame_cache[i].value \in returned.blame[git_blame_cache[i].key]

====
